---- MODULE Spec2Model ----
(***************************************************************************)
(* The fee estimator of bitcoin-fee-model (src/lib.rs): FeeModel::new,     *)
(* FeeModel::estimate, FeeModel::estimate_with_buckets and the crate's     *)
(* test, tests::test_estimate.                                             *)
(*                                                                         *)
(* Numbers.  TLC's integers are 32 bits wide, a u32 timestamp and an i64   *)
(* difference of two of them are not.  A count of seconds n is therefore   *)
(* carried as the pair <<q, r>> with n = 86400 * q + r and 0 <= r < 86400  *)
(* ("wide"), which is exact for every n the program computes.  An f32 is   *)
(* carried as the wide form of the value it holds; every f32 of this       *)
(* program holds an integer.                                               *)
(***************************************************************************)
EXTENDS Integers, Sequences, FiniteSets, TLC

VARIABLES
    low,            \* FeeModel.low
    high,           \* FeeModel.high
    clock,          \* the wall clock Utc::now() reads (a tick count)
    pc,             \* per caller: where its call of estimate stands
    args,           \* per caller: the arguments of its call
    fee_buckets,    \* per caller: estimate's local fee_buckets
    utc,            \* per caller: estimate_with_buckets' local utc
    input,          \* per HashMap: estimate_with_buckets' local input
    evaluated,      \* per caller: the models norm_predict ran on in this call
    result,         \* per caller: what the call returned
    tpc,            \* test_estimate: its position
    BUCKETS,        \* test_estimate: model_data::tests::BUCKETS
    test_now,       \* test_estimate: now
    one,            \* test_estimate: one
    two,            \* test_estimate: two
    ti,             \* test_estimate: position in [1, 2, 3, 6, 24, 144]
    wed,            \* test_estimate: wed
    sun             \* test_estimate: sun

vars == <<low, high, clock, pc, args, fee_buckets, utc, input, evaluated,
          result, tpc, BUCKETS, test_now, one, two, ti, wed, sun>>

call_vars == <<pc, args, fee_buckets, utc, input, evaluated, result>>
test_vars == <<tpc, BUCKETS, test_now, one, two, ti, wed, sun>>

\* Option<T>
None == <<>>
Some(x) == <<x>>

(***************************************************************************)
(* Wide integers                                                           *)
(***************************************************************************)
SecsPerDay == 86400

Wide(n) == <<n \div SecsPerDay, n % SecsPerDay>>

WSub(a, b) ==
    IF a[2] >= b[2] THEN <<a[1] - b[1], a[2] - b[2]>>
                    ELSE <<a[1] - b[1] - 1, a[2] - b[2] + SecsPerDay>>

WNeg(a) == IF a[2] = 0 THEN <<-a[1], 0>> ELSE <<-a[1] - 1, SecsPerDay - a[2]>>

WIsNeg(a) == a[1] < 0

WAbs(a) == IF WIsNeg(a) THEN WNeg(a) ELSE a

WLess(a, b) == a[1] < b[1] \/ (a[1] = b[1] /\ a[2] < b[2])

WLeq(a, b) == a = b \/ WLess(a, b)

Pow2(k) == 2 ^ k

(***************************************************************************)
(* `x as f32` for an integer x with |x| < 2^32: the nearest value with a   *)
(* 24 bit significand, ties to the even significand.  With |x| = 128*H + L *)
(* (86400 = 128 * 675), e the number of bits that do not fit, q the kept   *)
(* bits and r the dropped ones.                                            *)
(***************************************************************************)
F32Exp(H) == CHOOSE e \in 0..8 : H < Pow2(17 + e) /\ (e = 0 \/ H >= Pow2(16 + e))

RoundMagnitude(mag) ==
    LET H == 675 * mag[1] + (mag[2] \div 128)
        L == mag[2] % 128
        e == F32Exp(H)
        q == IF e = 8 THEN H \div 2 ELSE H * Pow2(7 - e) + (L \div Pow2(e))
        r == IF e = 8 THEN (H % 2) * 128 + L ELSE L % Pow2(e)
        half == IF e = 0 THEN 1 ELSE Pow2(e - 1)
        up == e > 0 /\ (r > half \/ (r = half /\ q % 2 = 1))
        m == IF up THEN q + 1 ELSE q
        H2 == IF e = 8 THEN 2 * m ELSE m \div Pow2(7 - e)
        L2 == IF e = 8 THEN 0 ELSE (m % Pow2(7 - e)) * Pow2(e)
    IN  <<H2 \div 675, (H2 % 675) * 128 + L2>>

WideAsF32(w) == IF WIsNeg(w) THEN WNeg(RoundMagnitude(WNeg(w))) ELSE RoundMagnitude(w)

\* `block_target as f32`, `fee_buckets[i] as f32`, `utc.hour() as f32`, ...
AsF32(n) == WideAsF32(Wide(n))

(***************************************************************************)
(* chrono                                                                  *)
(***************************************************************************)
\* Leap days of the years [0, y) of a 400 year cycle (chrono's YEAR_DELTAS).
YearDeltas(y) == IF y = 0 THEN 0 ELSE 1 + ((y - 1) \div 4) - ((y - 1) \div 100)

\* internals::cycle_to_yo: a day of the 400 year cycle to (year of the cycle, ordinal).
CycleToYo(cycle) ==
    LET y0 == cycle \div 365
        o0 == cycle % 365
        delta == YearDeltas(y0)
    IN  IF o0 < delta
        THEN [year_mod_400 |-> y0 - 1, ordinal |-> o0 + 365 - YearDeltas(y0 - 1) + 1]
        ELSE [year_mod_400 |-> y0, ordinal |-> o0 - delta + 1]

\* NaiveDate::from_num_days_from_ce_opt: day 1 is 0001-01-01; None out of range.
FromNumDaysFromCe(days) ==
    LET d1 == days + 365
        yo == CycleToYo(d1 % 146097)
        year == (d1 \div 146097) * 400 + yo.year_mod_400
    IN  IF year < -262144 \/ year > 262143 THEN None
        ELSE Some([year |-> year, ordinal |-> yo.ordinal])

\* Days of the years before `year`, counted from 0001-01-01.
DaysBeforeYear(year) ==
    LET y == year - 1 IN 365 * y + (y \div 4) - (y \div 100) + (y \div 400)

\* NaiveDateTime::from_timestamp_opt(secs, 0) and DateTime::from_utc(naive, Utc):
\* the day is secs div 86400 after 1970-01-01, which is day 719163; None when
\* the date is out of range, and from_timestamp then panics.
FromTimestampOpt(secs) ==
    LET date == FromNumDaysFromCe(secs[1] + 719163)
    IN  IF date = None THEN None
        ELSE Some([year |-> date[1].year, ordinal |-> date[1].ordinal, secs |-> secs[2]])

\* Datelike::weekday().num_days_from_monday(): 0001-01-01 was a Monday.
NumDaysFromMonday(dt) == (DaysBeforeYear(dt.year) + dt.ordinal - 1) % 7

\* Timelike::hour()
Hour(dt) == dt.secs \div 3600

\* DateTime::timestamp(): seconds since 1970-01-01T00:00:00Z.
Timestamp(dt) == <<DaysBeforeYear(dt.year) + dt.ordinal - 719163, dt.secs>>

(***************************************************************************)
(* fee_bucket::FeeBuckets, the histogram builder.  A fee rate r (an f64)   *)
(* is carried as the integer 100 * r; buckets hold counts (u64).           *)
(***************************************************************************)
Hundredths(n) == 100 * n

FeeBucketsNew(bucket_count, max_value) ==
    [bucket_count |-> bucket_count, max_value |-> max_value]

\* floor(rate / bucket_width) with bucket_width = max_value / bucket_count,
\* the last index for every rate >= max_value.
BucketIndex(fb, rate) ==
    IF rate >= Hundredths(fb.max_value)
    THEN fb.bucket_count - 1
    ELSE (rate * fb.bucket_count) \div Hundredths(fb.max_value)

RECURSIVE Accumulate(_, _, _)
Accumulate(fb, buckets, rates) ==
    IF rates = <<>> THEN buckets
    ELSE Accumulate(fb,
                    [buckets EXCEPT ![BucketIndex(fb, Head(rates)) + 1] = @ + 1],
                    Tail(rates))

FeeBucketsGet(fb, rates) == Accumulate(fb, [k \in 1..fb.bucket_count |-> 0], rates)

(***************************************************************************)
(* model_data::ModelData, the model evaluator                              *)
(***************************************************************************)
\* format!("b{}", i)
BName(i) == <<"b0", "b1", "b2", "b3", "b4", "b5", "b6", "b7", "b8", "b9", "b10",
              "b11", "b12", "b13", "b14", "b15", "b16", "b17", "b18", "b19">>[i + 1]

FeatureNames ==
    {"confirms_in", "day_of_week", "hour", "delta_last"} \cup {BName(i) : i \in 0..15}

\* ModelData::from_reader: the feature names the artifact declares; its
\* normalization constants and layers are the artifact's, named by it.
ModelDataFromReader(artifact) == [artifact |-> artifact, features |-> FeatureNames]

Err(e) == [tag |-> "Err", error |-> e, model |-> "", x |-> <<>>]

\* ModelData::norm_predict: a missing-feature error when a declared name is
\* absent, else the model's arithmetic on the declared features taken in the
\* model's order: Ok(value), or the numeric error for a non-finite value.  The
\* outcome is carried as the pair (artifact, features read) that determines it.
NormPredict(model, inp) ==
    IF ~(model.features \subseteq DOMAIN inp)
    THEN Err("MissingFeature")
    ELSE [tag |-> "Predicted", error |-> "", model |-> model.artifact,
          x |-> [f \in model.features |-> inp[f]]]

(***************************************************************************)
(* FeeModel                                                                *)
(***************************************************************************)
\* include_bytes!("../models/20210217-142524/model.cbor") and
\* include_bytes!("../models/20210217-154050/model.cbor")
LowArtifact == "models/20210217-142524/model.cbor"
HighArtifact == "models/20210217-154050/model.cbor"

FeeModelNew ==
    [low  |-> ModelDataFromReader(LowArtifact),
     high |-> ModelDataFromReader(HighArtifact)]

\* HashMap::new() and HashMap::insert
EmptyMap == <<>>
Insert(m, k, v) == (k :> v) @@ m

\* Utc::now() at a tick of the wall clock
NowSecs(tick) == <<18675 + tick, 52000 + 3700 * tick>>
UtcNow(tick) == FromTimestampOpt(NowSecs(tick))

\* the timestamp given is ignored: Utc::now() in both arms
UtcOfNow(timestamp, tick) == UtcNow(tick)

\* let utc = match timestamp { Some(t) => from_timestamp(t as i64, 0), None => Utc::now() };
\* None here is from_timestamp's panic.
UtcOf(timestamp, tick) ==
    IF timestamp # None THEN FromTimestampOpt(timestamp[1]) ELSE UtcNow(tick)

\* input.insert("confirms_in", block_target as f32) on a new map
WithConfirmsIn(block_target) == Insert(EmptyMap, "confirms_in", AsF32(block_target))

\* weekday().num_days_from_sunday() in place of num_days_from_monday()
DayOfWeekFromSunday(dt) == AsF32((NumDaysFromMonday(dt) + 1) % 7)

\* let day_of_week = utc.weekday().num_days_from_monday() as f32;
DayOfWeek(dt) == AsF32(NumDaysFromMonday(dt))

WithTime(inp, dt) ==
    Insert(Insert(inp, "day_of_week", DayOfWeek(dt)), "hour", AsF32(Hour(dt)))

\* the difference taken in u32, wrapping: 2^32 = 86400 * 49710 + 23296
DeltaWrapping(dt, last_block_ts) ==
    LET diff == WSub(Timestamp(dt), last_block_ts)
    IN  IF WIsNeg(diff) THEN WSub(diff, WNeg(<<49710, 23296>>)) ELSE diff

\* let delta = utc.timestamp() - last_block_ts as i64;
Delta(dt, last_block_ts) == WSub(Timestamp(dt), last_block_ts)

WithDelta(inp, dt, last_block_ts) ==
    Insert(inp, "delta_last", WideAsF32(Delta(dt, last_block_ts)))

\* for i in 0..15, the end left out
BucketRangeExclusive == 0..14

\* for i in 0..=15
BucketRange == 0..15

\* fee_buckets[i] panics when i is out of range
BucketsInRange(buckets) == \A i \in BucketRange : i + 1 <= Len(buckets)

RECURSIVE BucketLoop(_, _, _)
BucketLoop(inp, buckets, todo) ==
    IF todo = {} THEN inp
    ELSE LET i == CHOOSE j \in todo : \A k \in todo : j <= k
         IN  BucketLoop(Insert(inp, BName(i), AsF32(buckets[i + 1])), buckets, todo \ {i})

WithBuckets(inp, buckets) == BucketLoop(inp, buckets, BucketRange)

\* the threshold taken one too low
SelectModelBelowTwo(self, block_target) ==
    IF block_target < 2 THEN self.low ELSE self.high

\* if block_target <= 2 { self.low } else { self.high }
SelectModel(self, block_target) == IF block_target <= 2 THEN self.low ELSE self.high

\* FeeBuckets::new(500, 50.0): the two arguments exchanged
HistogramExchanged(fee_rates) == FeeBucketsGet(FeeBucketsNew(500, 50), fee_rates)

\* FeeBuckets::new(15, 500.0): fewer buckets than the sixteen read
HistogramFifteen(fee_rates) == FeeBucketsGet(FeeBucketsNew(15, 500), fee_rates)

\* FeeBuckets::new(50, 500.0).get(fee_rates)
Histogram(fee_rates) == FeeBucketsGet(FeeBucketsNew(50, 500), fee_rates)

Panic == [tag |-> "Panic", error |-> "", model |-> "", x |-> <<>>]

\* estimate_with_buckets run from start to end, the wall clock at `tick`.
EstimateWithBuckets(self, block_target, timestamp, buckets, last_block_ts, tick) ==
    LET dt == UtcOf(timestamp, tick)
    IN  IF dt = None \/ ~BucketsInRange(buckets) THEN Panic
        ELSE NormPredict(
                 SelectModel(self, block_target),
                 WithBuckets(
                     WithDelta(WithTime(WithConfirmsIn(block_target), dt[1]),
                               dt[1], last_block_ts),
                     buckets))

\* estimate run from start to end
Estimate(self, block_target, timestamp, fee_rates, last_block_ts, tick) ==
    EstimateWithBuckets(self, block_target, timestamp, Histogram(fee_rates),
                        last_block_ts, tick)

(***************************************************************************)
(* Bounds and the inputs drawn                                             *)
(***************************************************************************)
NCallers == 2       \* callers sharing the one FeeModel
MaxLen == 2         \* longest fee_rates drawn
MaxTicks == 1       \* ticks of the wall clock

Callers == 1..NCallers

\* block_target: u16
BlockTargets == {0, 1, 2, 3, 65535}

\* timestamp, last_block_ts: u32.  1970-01-01 00:00:00, 2000-02-29 23:59:00,
\* 2021-02-14 12:00:00 (a Sunday), 2021-02-17 12:00:00 (a Wednesday),
\* 2100-03-01 01:00:00, 2^25 + 1 and u32::MAX = 2106-02-07 06:28:15.
Timestamps == {<<0, 0>>, <<11016, 86340>>, <<18672, 43200>>, <<18675, 43200>>,
               <<47541, 3600>>, <<388, 31233>>, <<49710, 23295>>}
LastBlockTimes == {<<0, 0>>, <<18672, 42900>>, <<49710, 23295>>}

\* fee rates, in hundredths: 9.99, 10, 159.99, 160, 500 and 1234.56
Rates == {999, 1000, 15999, 16000, 50000, 123456}

SeqsUpTo(S, n) == UNION {[1..k -> S] : k \in 0..n}

WholeRange ==
    [block_target  |-> BlockTargets,
     timestamp     |-> {None} \cup {Some(t) : t \in Timestamps},
     fee_rates     |-> SeqsUpTo(Rates, MaxLen),
     last_block_ts |-> LastBlockTimes]

(***************************************************************************)
(* The calls of estimate.  Each caller holds &FeeModel; a call's locals    *)
(* are its own.                                                            *)
(***************************************************************************)
\* one map held by the FeeModel and used by every call
HashMapShared(c) == 1

\* let mut input = HashMap::new(): the map a call builds
HashMapOf(c) == c

Self == [low |-> low, high |-> high]

Arg(c) == args[c][1]

\* estimate(block_target, timestamp, fee_rates, last_block_ts), up to the
\* call of estimate_with_buckets; the arguments are drawn from `choices`.
CallEstimate(c, choices) ==
    /\ pc[c] = "idle"
    /\ \E block_target \in choices.block_target,
          timestamp \in choices.timestamp,
          fee_rates \in choices.fee_rates,
          last_block_ts \in choices.last_block_ts :
        /\ args' = [args EXCEPT ![c] = Some([block_target |-> block_target,
                                             timestamp |-> timestamp,
                                             fee_rates |-> fee_rates,
                                             last_block_ts |-> last_block_ts])]
        /\ fee_buckets' = [fee_buckets EXCEPT ![c] = Histogram(fee_rates)]
    /\ pc' = [pc EXCEPT ![c] = "new_input"]
    /\ UNCHANGED <<low, high, clock, utc, input, evaluated, result, test_vars>>

NewInput(c) ==
    /\ pc[c] = "new_input"
    /\ input' = [input EXCEPT ![HashMapOf(c)] = WithConfirmsIn(Arg(c).block_target)]
    /\ pc' = [pc EXCEPT ![c] = "time"]
    /\ UNCHANGED <<low, high, clock, args, fee_buckets, utc, evaluated, result, test_vars>>

TimeFeatures(c) ==
    /\ pc[c] = "time"
    /\ LET dt == UtcOf(Arg(c).timestamp, clock)
       IN  IF dt = None
           THEN /\ pc' = [pc EXCEPT ![c] = "panicked"]
                /\ UNCHANGED <<utc, input>>
           ELSE /\ utc' = [utc EXCEPT ![c] = dt]
                /\ input' = [input EXCEPT ![HashMapOf(c)] = WithTime(@, dt[1])]
                /\ pc' = [pc EXCEPT ![c] = "delta"]
    /\ UNCHANGED <<low, high, clock, args, fee_buckets, evaluated, result, test_vars>>

DeltaLast(c) ==
    /\ pc[c] = "delta"
    /\ input' = [input EXCEPT ![HashMapOf(c)] =
                     WithDelta(@, utc[c][1], Arg(c).last_block_ts)]
    /\ pc' = [pc EXCEPT ![c] = "buckets"]
    /\ UNCHANGED <<low, high, clock, args, fee_buckets, utc, evaluated, result, test_vars>>

BucketFeatures(c) ==
    /\ pc[c] = "buckets"
    /\ IF BucketsInRange(fee_buckets[c])
       THEN /\ input' = [input EXCEPT ![HashMapOf(c)] = WithBuckets(@, fee_buckets[c])]
            /\ pc' = [pc EXCEPT ![c] = "select"]
       ELSE /\ pc' = [pc EXCEPT ![c] = "panicked"]
            /\ UNCHANGED input
    /\ UNCHANGED <<low, high, clock, args, fee_buckets, utc, evaluated, result, test_vars>>

Predict(c) ==
    /\ pc[c] = "select"
    /\ LET model == SelectModel(Self, Arg(c).block_target)
       IN  /\ evaluated' = [evaluated EXCEPT ![c] = Append(@, model.artifact)]
           /\ result' = [result EXCEPT ![c] = Some(NormPredict(model, input[HashMapOf(c)]))]
    /\ pc' = [pc EXCEPT ![c] = "done"]
    /\ UNCHANGED <<low, high, clock, args, fee_buckets, utc, input, test_vars>>

\* the call returns: its locals are dropped
Return(c) ==
    /\ pc[c] = "done"
    /\ pc' = [pc EXCEPT ![c] = "idle"]
    /\ args' = [args EXCEPT ![c] = None]
    /\ fee_buckets' = [fee_buckets EXCEPT ![c] = <<>>]
    /\ utc' = [utc EXCEPT ![c] = None]
    /\ input' = [input EXCEPT ![HashMapOf(c)] = EmptyMap]
    /\ evaluated' = [evaluated EXCEPT ![c] = <<>>]
    /\ result' = [result EXCEPT ![c] = None]
    /\ UNCHANGED <<low, high, clock, test_vars>>

Tick ==
    /\ clock < MaxTicks
    /\ clock' = clock + 1
    /\ UNCHANGED <<low, high, call_vars, test_vars>>

\* FeeModel::new(), nobody calling yet
InitModel ==
    /\ low = FeeModelNew.low
    /\ high = FeeModelNew.high
    /\ clock = 0
    /\ pc = [c \in Callers |-> "idle"]
    /\ args = [c \in Callers |-> None]
    /\ fee_buckets = [c \in Callers |-> <<>>]
    /\ utc = [c \in Callers |-> None]
    /\ input = [c \in Callers |-> EmptyMap]
    /\ evaluated = [c \in Callers |-> <<>>]
    /\ result = [c \in Callers |-> None]

TestOff ==
    /\ tpc = "off"
    /\ BUCKETS = <<>>
    /\ test_now = <<0, 0>>
    /\ one = None
    /\ two = None
    /\ ti = 0
    /\ wed = None
    /\ sun = None

Init == InitModel /\ TestOff

\* One caller, the inputs drawn from the whole of their ranges.
Next ==
    \/ CallEstimate(1, WholeRange)
    \/ NewInput(1)
    \/ TimeFeatures(1)
    \/ DeltaLast(1)
    \/ BucketFeatures(1)
    \/ Predict(1)
    \/ Return(1)
    \/ Tick

Spec == Init /\ [][Next]_vars

(***************************************************************************)
(* Callers sharing one FeeModel, their calls interleaved                   *)
(***************************************************************************)
SharedRange ==
    [block_target  |-> {2, 3},
     timestamp     |-> {None, Some(<<18672, 43200>>)},
     fee_rates     |-> {<<1000>>},
     last_block_ts |-> {<<18672, 42900>>}]

NextShared ==
    \/ \E c \in Callers :
        \/ CallEstimate(c, SharedRange)
        \/ NewInput(c)
        \/ TimeFeatures(c)
        \/ DeltaLast(c)
        \/ BucketFeatures(c)
        \/ Predict(c)
        \/ Return(c)
    \/ Tick

SpecShared == Init /\ [][NextShared]_vars

(***************************************************************************)
(* tests::test_estimate                                                    *)
(***************************************************************************)
IsLeapYear(year) == year % 4 = 0 /\ (year % 100 # 0 \/ year % 400 = 0)

DaysBeforeMonth(year, month) ==
    <<0, 31, 59, 90, 120, 151, 181, 212, 243, 273, 304, 334>>[month]
    + (IF month > 2 /\ IsLeapYear(year) THEN 1 ELSE 0)

\* NaiveDate::from_ymd(y, m, d).and_hms(h, min, s).timestamp() as u32
YmdHmsTimestamp(year, month, day, h, min, s) ==
    Timestamp([year |-> year, ordinal |-> DaysBeforeMonth(year, month) + day,
               secs |-> 3600 * h + 60 * min + s])

TestSunday == YmdHmsTimestamp(2021, 2, 14, 12, 0, 0)
TestWednesday == YmdHmsTimestamp(2021, 2, 17, 12, 0, 0)

\* [1u16, 2, 3, 6, 24, 144]
TestTargets == <<1, 2, 3, 6, 24, 144>>

\* model_data::tests::BUCKETS is a constant of the crate's tests: the first
\* sixteen buckets of some histogram.
TestBuckets == {SubSeq(Histogram(r), 1, 16) : r \in SeqsUpTo({999, 1000, 15999}, MaxLen)}

\* Result::unwrap: the value, or a panic on an error
Unwraps(r) == r.tag = "Predicted"

\* let model = FeeModel::new(); let now = Utc::now().timestamp() as u32;
TestStart ==
    /\ tpc = "start"
    /\ test_now' = NowSecs(clock)
    /\ tpc' = "one"
    /\ UNCHANGED <<low, high, clock, call_vars, BUCKETS, one, two, ti, wed, sun>>

\* let one = model.estimate_with_buckets(1, Some(now), &BUCKETS, now - 300).unwrap();
TestOne ==
    /\ tpc = "one"
    /\ LET r == EstimateWithBuckets(FeeModelNew, 1, Some(test_now), BUCKETS,
                                    WSub(test_now, Wide(300)), clock)
       IN  IF Unwraps(r) THEN one' = r /\ tpc' = "two"
                         ELSE one' = one /\ tpc' = "panicked"
    /\ UNCHANGED <<low, high, clock, call_vars, BUCKETS, test_now, two, ti, wed, sun>>

\* let two = model.estimate_with_buckets(2, Some(now), &BUCKETS, now - 300).unwrap();
TestTwo ==
    /\ tpc = "two"
    /\ LET r == EstimateWithBuckets(FeeModelNew, 2, Some(test_now), BUCKETS,
                                    WSub(test_now, Wide(300)), clock)
       IN  IF Unwraps(r) THEN two' = r /\ tpc' = "assert_one_two"
                         ELSE two' = two /\ tpc' = "panicked"
    /\ UNCHANGED <<low, high, clock, call_vars, BUCKETS, test_now, one, ti, wed, sun>>

\* assert!(one > two, ...): the comparison is of the two models' values; the
\* test goes on when it holds.
TestAssertOneTwo ==
    /\ tpc = "assert_one_two"
    /\ ti' = 1
    /\ tpc' = "wed"
    /\ UNCHANGED <<low, high, clock, call_vars, BUCKETS, test_now, one, two, wed, sun>>

\* let wed = model.estimate_with_buckets(*i, Some(sunday), &BUCKETS, sunday).unwrap();
TestWed ==
    /\ tpc = "wed"
    /\ LET r == EstimateWithBuckets(FeeModelNew, TestTargets[ti], Some(TestSunday),
                                    BUCKETS, TestSunday, clock)
       IN  IF Unwraps(r) THEN wed' = r /\ tpc' = "sun"
                         ELSE wed' = wed /\ tpc' = "panicked"
    /\ UNCHANGED <<low, high, clock, call_vars, BUCKETS, test_now, one, two, ti, sun>>

\* let sun = model.estimate_with_buckets(*i, Some(wednesday), &BUCKETS, wednesday).unwrap();
TestSun ==
    /\ tpc = "sun"
    /\ LET r == EstimateWithBuckets(FeeModelNew, TestTargets[ti], Some(TestWednesday),
                                    BUCKETS, TestWednesday, clock)
       IN  IF Unwraps(r) THEN sun' = r /\ tpc' = "assert_weekly"
                         ELSE sun' = sun /\ tpc' = "panicked"
    /\ UNCHANGED <<low, high, clock, call_vars, BUCKETS, test_now, one, two, ti, wed>>

\* assert!(wed >= sun, ...), then the next i
TestAssertWeekly ==
    /\ tpc = "assert_weekly"
    /\ IF ti < Len(TestTargets) THEN ti' = ti + 1 /\ tpc' = "wed"
                                ELSE ti' = ti /\ tpc' = "passed"
    /\ UNCHANGED <<low, high, clock, call_vars, BUCKETS, test_now, one, two, wed, sun>>

InitTest ==
    /\ InitModel
    /\ tpc = "start"
    /\ BUCKETS \in TestBuckets
    /\ test_now = <<0, 0>>
    /\ one = None
    /\ two = None
    /\ ti = 0
    /\ wed = None
    /\ sun = None

NextTest ==
    \/ TestStart
    \/ TestOne
    \/ TestTwo
    \/ TestAssertOneTwo
    \/ TestWed
    \/ TestSun
    \/ TestAssertWeekly
    \/ Tick

SpecTest == InitTest /\ [][NextTest]_vars

(***************************************************************************)
(* The claims                                                              *)
(***************************************************************************)
Explicit(c) == Arg(c).timestamp # None

\* C1: a call of estimate evaluates exactly one model, the "low" one when
\* block_target <= 2 (0, 1 and 2 included) and the "high" one when
\* block_target >= 3; until it selects, it has evaluated none.
C1_OneModelByThreshold ==
    \A c \in Callers :
        /\ pc[c] # "done" => evaluated[c] = <<>>
        /\ pc[c] = "done" =>
            /\ Arg(c).block_target \in 0..2 =>
                 evaluated[c] = <<LowArtifact>> /\ result[c][1].model = LowArtifact
            /\ Arg(c).block_target \in 3..65535 =>
                 evaluated[c] = <<HighArtifact>> /\ result[c][1].model = HighArtifact

C1_Witness ==
    /\ pc[1] = "done"
    /\ Arg(1).block_target = 2
    /\ evaluated[1] = <<LowArtifact>>

DeltaInserted(c) == pc[c] \in {"buckets", "select", "done"}

\* C3 as stated: delta_last equals the signed difference timestamp - last_block_ts.
C3_DeltaIsTheDifference ==
    \A c \in Callers :
        DeltaInserted(c) /\ Explicit(c) =>
            input[HashMapOf(c)]["delta_last"] =
                WSub(Arg(c).timestamp[1], Arg(c).last_block_ts)

\* C3 as amended: delta_last is the signed difference timestamp - last_block_ts
\* rounded to an f32: negative whenever last_block_ts > timestamp and never
\* wrapped, equal to the difference whenever its magnitude is at most 2^24
\* (16777216 = 194 days 15616 s), and within 128 of it throughout.
C3_DeltaIsTheRoundedDifference ==
    \A c \in Callers :
        DeltaInserted(c) /\ Explicit(c) =>
            LET diff == WSub(Arg(c).timestamp[1], Arg(c).last_block_ts)
                delta_last == input[HashMapOf(c)]["delta_last"]
            IN  /\ WLess(Arg(c).timestamp[1], Arg(c).last_block_ts) <=> WIsNeg(delta_last)
                /\ WLeq(WAbs(diff), <<194, 15616>>) => delta_last = diff
                /\ WLeq(WAbs(WSub(delta_last, diff)), <<0, 128>>)

C3_Witness ==
    /\ pc[1] = "buckets"
    /\ Arg(1).timestamp = Some(<<18672, 43200>>)
    /\ Arg(1).last_block_ts = <<49710, 23295>>
    /\ WIsNeg(input[HashMapOf(1)]["delta_last"])

TimeInserted(c) == pc[c] \in {"delta", "buckets", "select", "done"}

\* C4: for an explicit timestamp t, day_of_week is ((t div 86400) + 3) mod 7
\* (0 = Monday .. 6 = Sunday) and hour is (t mod 86400) div 3600, so that
\* day_of_week is in 0..6 and hour in 0..23.
C4_UtcWeekdayAndHour ==
    \A c \in Callers :
        TimeInserted(c) /\ Explicit(c) =>
            LET t == Arg(c).timestamp[1]
                inp == input[HashMapOf(c)]
            IN  /\ inp["day_of_week"] = <<0, (t[1] + 3) % 7>>
                /\ inp["hour"] = <<0, t[2] \div 3600>>
                /\ inp["day_of_week"][2] \in 0..6
                /\ inp["hour"][2] \in 0..23

C4_Witness ==
    /\ pc[1] = "delta"
    /\ Arg(1).timestamp = Some(<<47541, 3600>>)
    /\ input[HashMapOf(1)]["day_of_week"] = <<0, 0>>
    /\ input[HashMapOf(1)]["hour"] = <<0, 1>>

\* C5: the histogram estimate builds has exactly 50 buckets and counts every
\* observation in exactly one of them: bucket floor(rate / 10) for a rate
\* below 500, bucket 49 for a rate of 500 or more; a rate k * 10 is in bucket k.
C5_HistogramRouting ==
    \A c \in Callers :
        pc[c] \notin {"idle", "panicked"} =>
            LET rates == Arg(c).fee_rates
                bucket_of(rate) == IF rate >= 50000 THEN 49 ELSE rate \div 1000
            IN  /\ Len(fee_buckets[c]) = 50
                /\ \A k \in 0..49 :
                     fee_buckets[c][k + 1] =
                         Cardinality({i \in DOMAIN rates : bucket_of(rates[i]) = k})

C5_Witness ==
    /\ pc[1] = "new_input"
    /\ Arg(1).fee_rates = <<1000, 50000>>
    /\ fee_buckets[1][2] = 1
    /\ fee_buckets[1][50] = 1

\* C6: a call of estimate ends by returning a value or a typed error, and
\* never panics: the sixteen reads fee_buckets[0..15] are in range and the
\* conversion of the timestamp does not fail.
C6_NoPanic ==
    \A c \in Callers :
        /\ pc[c] # "panicked"
        /\ pc[c] = "buckets" => Len(fee_buckets[c]) >= 16
        /\ pc[c] = "done" => result[c] # None /\ result[c][1].tag \in {"Predicted", "Err"}

C6_Witness ==
    /\ pc[1] = "done"
    /\ Arg(1).fee_rates = <<>>
    /\ Arg(1).timestamp = Some(<<49710, 23295>>)
    /\ result[1][1].tag = "Predicted"

\* C7: two calls of estimate on the same FeeModel with the same block_target,
\* the same explicit timestamp, the same fee_rates and the same last_block_ts
\* return the same result, whatever calls ran before or in between.
C7_Deterministic ==
    \A c1, c2 \in Callers :
        /\ pc[c1] = "done"
        /\ pc[c2] = "done"
        /\ args[c1] = args[c2]
        /\ Explicit(c1)
        => result[c1] = result[c2]

C7_Witness ==
    /\ pc[1] = "done"
    /\ pc[2] = "done"
    /\ args[1] = args[2]
    /\ Explicit(1)
    /\ clock = MaxTicks
    /\ result[1][1].tag = "Predicted"

\* C8: the two models are never modified after construction, and a call
\* interleaved with other callers' calls returns what it returns run alone
\* (with the wall clock at some tick that has passed).
C8_SharedReadOnly ==
    /\ low = FeeModelNew.low
    /\ high = FeeModelNew.high
    /\ \A c \in Callers :
        pc[c] = "done" =>
            \E tick \in 0..clock :
                result[c] = Some(Estimate(FeeModelNew, Arg(c).block_target,
                                          Arg(c).timestamp, Arg(c).fee_rates,
                                          Arg(c).last_block_ts, tick))

C8_Witness ==
    /\ pc[1] = "done"
    /\ pc[2] = "done"
    /\ Arg(1).block_target = 2
    /\ Arg(2).block_target = 3
    /\ Arg(1).timestamp = None
    /\ Explicit(2)
    /\ input[HashMapOf(1)] # input[HashMapOf(2)]
    /\ result[1] # result[2]

\* C9: the test's weekly assertion compares the estimate at the Wednesday
\* timestamp as the larger side and the estimate at the Sunday timestamp as
\* the smaller side.
C9_TestComparesWednesdayAsLarger ==
    tpc = "assert_weekly" =>
        /\ wed.x["day_of_week"] = <<0, 2>>
        /\ sun.x["day_of_week"] = <<0, 6>>

====
